---- MODULE Spec2Model ----
(***************************************************************************)
(* gtasks-manager: the reference cache (core/task_cache.py), the task      *)
(* service (core/services.py), the CLI front-end (cli/main.py,             *)
(* cli/commands/tasks.py, cli/formatters.py) and the retry wrapper         *)
(* (adapters/utils.py).                                                    *)
(*                                                                         *)
(* Python str values that the code converts (ids, CLI arguments, JSON      *)
(* keys) are sequences of one-character strings, so that str() and int()   *)
(* are computed digit by digit. Titles and messages are never converted    *)
(* and stay TLA+ strings. An Optional value is <<>> (None) or <<v>>.       *)
(* TaskCache.last_updated and the Task fields notes/due/updated/completed  *)
(* are written but never read by the operations modelled here and are      *)
(* left out.                                                               *)
(***************************************************************************)
EXTENDS Integers, Sequences, FiniteSets, TLC

\* ------------------------------------------------------------------ bounds

\* Longest listing the remote service returns in one call.
MaxLen == 2
\* Number of tasks the remote service holds.
NumIds == 2
\* Largest max_retries handed to execute_with_retry.
MaxRetries == 2

\* ------------------------------------------------------------- Python values

None == << >>
Some(v) == << v >>

\* str(i) for an int: optional sign, then the decimal digits.
Digits == << "0", "1", "2", "3", "4", "5", "6", "7", "8", "9" >>

RECURSIVE StrNat(_)
StrNat(n) ==
    IF n < 10 THEN << Digits[n + 1] >>
    ELSE StrNat(n \div 10) \o << Digits[(n % 10) + 1] >>

Str(i) == IF i < 0 THEN << "-" >> \o StrNat(0 - i) ELSE StrNat(i)

\* int(s) for a str: surrounding whitespace is stripped, one optional sign,
\* then one or more decimal digits; anything else raises ValueError.
IsDigit(c) == \E d \in 1..10 : Digits[d] = c
DigitVal(c) == (CHOOSE d \in 1..10 : Digits[d] = c) - 1

RECURSIVE LStrip(_)
LStrip(s) == IF s # << >> /\ Head(s) = " " THEN LStrip(Tail(s)) ELSE s

RECURSIVE RStrip(_)
RStrip(s) ==
    IF s # << >> /\ s[Len(s)] = " " THEN RStrip(SubSeq(s, 1, Len(s) - 1)) ELSE s

RECURSIVE NatVal(_)
NatVal(s) ==
    IF s = << >> THEN 0
    ELSE 10 * NatVal(SubSeq(s, 1, Len(s) - 1)) + DigitVal(s[Len(s)])

\* [ok |-> FALSE] is ValueError.
ParseInt(s) ==
    LET t == RStrip(LStrip(s))
        signed == t # << >> /\ Head(t) \in {"+", "-"}
        body == IF signed THEN Tail(t) ELSE t
    IN  IF body # << >> /\ \A k \in 1..Len(body) : IsDigit(body[k])
        THEN [ok |-> TRUE,
              val |-> IF signed /\ Head(t) = "-" THEN 0 - NatVal(body)
                      ELSE NatVal(body)]
        ELSE [ok |-> FALSE, val |-> 0]

\* TaskReference = Union[str, int]
\* (the field of the other kind is unused and holds a fixed value)
IntRef(i) == [kind |-> "int", int |-> i, str |-> << >>]
StrRef(s) == [kind |-> "str", int |-> 0, str |-> s]

\* bool(x) is False for None and for the empty str.
Falsy(opt) == opt = None \/ opt[1] = << >>

\* ------------------------------------------------------------ remote service

\* Ids the remote service has assigned: "T1", "T2", ...
TaskId(k) == << "T" >> \o Str(k)
Ids == { TaskId(k) : k \in 1..NumIds }
T1 == TaskId(1)

TitleOf(id) ==
    CASE id = TaskId(1) -> "Buy milk"
      [] id = TaskId(2) -> "Call mum"
      [] id = TaskId(3) -> "Pay rent"
      [] OTHER -> "Untitled"

Task(id, status) == [id |-> id, title |-> TitleOf(id), status |-> status]

\* Every listing the adapter can hand back: up to MaxLen distinct tasks in
\* any order. With show_completed the remote includes completed tasks.
Listings(show_completed) ==
    LET statuses == IF show_completed THEN {"needsAction", "completed"}
                    ELSE {"needsAction"}
    IN  { L \in UNION { [1..n -> [id : Ids, title : {TitleOf(i) : i \in Ids},
                                  status : statuses]] : n \in 0..MaxLen } :
            /\ \A k \in 1..Len(L) : L[k].title = TitleOf(L[k].id)
            /\ \A j, k \in 1..Len(L) : j # k => L[j].id # L[k].id }

\* The DomainError kinds GoogleTasksAdapter raises (its import of
\* core.exceptions); RateLimitError and NetworkError are never raised by it.
ErrorKinds == {"AuthenticationError", "NotFoundError", "ValidationError",
               "APIError"}

\* ------------------------------------------------------------------- state

VARIABLES
    cache,      \* the TaskCache held by the TaskService (cli/main.py _cache)
    disk,       \* the file CONFIG_DIR/task_cache.json
    pc,         \* where the front-end is: "down", "ready", "fetched",
                \* "replaced", "done"
    cmd,        \* the operation in progress or last run
    fetched,    \* TaskService.list_tasks: the local `tasks`
    api_call,   \* the call the operation made on the adapter (Optional)
    api_error,  \* the error the adapter raised (Optional kind)
    raised,     \* the error that left the TaskService method (Optional kind)
    result,     \* the value the TaskService method returned (Optional)
    out,        \* what the CLI invocation echoed (Optional)
    last_list,  \* the terminal: the listing the most recent `list` printed
    r_max,      \* execute_with_retry: max_retries
    r_attempt,  \* execute_with_retry: the loop variable `attempt`
    r_pc,       \* execute_with_retry: "loop", "returned", "raised"
    r_seen,     \* the responses request_func().execute() has given so far
    r_outcome   \* what execute_with_retry returned or raised (Optional)

svcVars == << cache, fetched, api_call, api_error, raised, result >>
cliVars == << disk, pc, cmd, out, last_list >>
retryVars == << r_max, r_attempt, r_pc, r_seen, r_outcome >>

VARIABLES
    a_token,    \* the file CONFIG_DIR/token.json
    a_creds,    \* GoogleTasksAdapter._creds
    a_service,  \* GoogleTasksAdapter._service is set
    a_op,       \* the adapter operation last called
    a_flow,     \* the operation ran the interactive OAuth flow
    a_sent,     \* the requests the operation executed on the remote
    a_seen,     \* what .execute() gave for each of them so far
    a_outcome,  \* what the operation returned or raised
    a_mode,     \* the permission bits of token.json (Optional: no file)
    a_umask     \* the umask of the user's processes

adapterVars == << a_token, a_creds, a_service, a_op, a_flow, a_sent,
                  a_seen, a_outcome, a_mode, a_umask >>

VARIABLES
    c_launched, \* how many times this invocation ran TasksApp(...).run()
    c_exit      \* the exit status of the invocation (Optional: running)

shellVars == << c_launched, c_exit >>

VARIABLES
    m_task,     \* one core.models.Task: its status and completed timestamp
    m_orig,     \* that Task as it was constructed
    m_hist,     \* the calls made on it: method, status before and after
    m_clock     \* datetime.utcnow()

modelVars == << m_task, m_orig, m_hist, m_clock >>

VARIABLES
    u_service,  \* TasksApp.service: what the app was built over
    u_alive,    \* the app is running
    u_tasks,    \* TasksApp.tasks
    u_index,    \* list_view.index (Optional, 0-based)
    u_selected, \* TasksApp.selected_task_id (Optional)
    u_loading,  \* TasksApp.loading_state
    u_workers,  \* the workers created and not yet started, oldest first
    u_active,   \* the worker on the event loop (Optional)
    u_done,     \* how the worker that ended last ended
    u_event,    \* the handler that ran last
    u_remote,   \* the remote service: the status it holds for each task
    u_rows      \* the ListView: the status marker of each row

tuiVars == << u_service, u_alive, u_tasks, u_index, u_selected, u_loading,
              u_workers, u_active, u_done, u_event, u_remote, u_rows >>
extVars == << adapterVars, modelVars, tuiVars, shellVars >>
notAdapter == << svcVars, cliVars, retryVars, modelVars, tuiVars, shellVars >>
notModel == << svcVars, cliVars, retryVars, adapterVars, tuiVars, shellVars >>
tuiRest == << fetched, api_call, api_error, raised, result, cliVars,
              retryVars, adapterVars, modelVars, shellVars >>
notTui == << cache, tuiRest >>
vars == << cache, disk, pc, cmd, fetched, api_call, api_error, raised, result,
           out, last_list, r_max, r_attempt, r_pc, r_seen, r_outcome,
           extVars >>

\* ---------------------------------------------------------------- TaskCache

EmptyCache == [active_tasks |-> << >>, completed_tasks |-> << >>]

\* Variant: a str that reads as a number is looked up like an index.
get_task_id_parsing_str(c, reference, completed) ==
    LET m == IF completed THEN c.completed_tasks ELSE c.active_tasks
        key == IF reference.kind = "str" THEN ParseInt(reference.str).val
               ELSE reference.int
    IN  IF reference.kind = "str" /\ ~ParseInt(reference.str).ok
        THEN Some(reference.str)
        ELSE IF key \in DOMAIN m THEN Some(m[key]) ELSE None

\* TaskCache.get_task_id(reference, completed)
get_task_id(c, reference, completed) ==
    IF reference.kind = "str" THEN Some(reference.str)
    ELSE LET m == IF completed THEN c.completed_tasks ELSE c.active_tasks
         IN  IF reference.int \in DOMAIN m THEN Some(m[reference.int])
             ELSE None

\* Variant: the new listing is merged into the old mapping.
update_merging(c, tasks, completed) ==
    LET old == IF completed THEN c.completed_tasks ELSE c.active_tasks
        m == [idx \in (DOMAIN old) \cup (1..Len(tasks)) |->
                IF idx \in 1..Len(tasks) THEN tasks[idx].id ELSE old[idx]]
    IN  IF completed THEN [c EXCEPT !.completed_tasks = m]
        ELSE [c EXCEPT !.active_tasks = m]

\* Variant: one mapping shared by both partitions.
update_both_partitions(c, tasks, completed) ==
    LET m == [idx \in 1..Len(tasks) |-> tasks[idx].id]
    IN  [active_tasks |-> m, completed_tasks |-> m]

\* TaskCache.update(tasks, completed)
update(c, tasks, completed) ==
    LET m == [idx \in 1..Len(tasks) |-> tasks[idx].id]
    IN  IF completed THEN [c EXCEPT !.completed_tasks = m]
        ELSE [c EXCEPT !.active_tasks = m]

\* json.dump of a dict[int, str]: every int key becomes its decimal string.
JsonObject(m) ==
    [k \in {Str(i) : i \in DOMAIN m} |->
        m[CHOOSE i \in DOMAIN m : Str(i) = k]]

\* Variant: only the active mapping is written.
save_active_only(c) ==
    [kind |-> "json",
     data |-> [active_tasks |-> JsonObject(c.active_tasks),
               completed_tasks |-> JsonObject(<< >>)]]

\* TaskCache.save(path)
save(c) ==
    [kind |-> "json",
     data |-> [active_tasks |-> JsonObject(c.active_tasks),
               completed_tasks |-> JsonObject(c.completed_tasks)]]

\* {int(k): v for k, v in obj.items()}
IntKeyed(obj) ==
    [i \in {ParseInt(k).val : k \in DOMAIN obj} |->
        obj[CHOOSE k \in DOMAIN obj : ParseInt(k).val = i]]

\* TaskCache.load(path): a missing file, a file json.load rejects and a key
\* int() rejects all give the empty cache.
load(file) ==
    IF file.kind # "json" THEN EmptyCache
    ELSE IF \E k \in DOMAIN file.data.active_tasks
                     \cup DOMAIN file.data.completed_tasks : ~ParseInt(k).ok
    THEN EmptyCache
    ELSE [active_tasks |-> IntKeyed(file.data.active_tasks),
          completed_tasks |-> IntKeyed(file.data.completed_tasks)]

\* -------------------------------------------------- adapter, as the port sees it

\* What an adapter call that returns one Task can do: raise any DomainError,
\* or return the task the remote service holds under task_id.
TaskOutcomes(task_id, statuses) ==
    { [err |-> Some(e), value |-> None] : e \in ErrorKinds }
    \cup { [err |-> None, value |-> Some(Task(task_id, st))] :
             st \in IF task_id \in Ids THEN statuses ELSE {} }

\* delete_task returns None.
DeleteOutcomes(task_id) ==
    { [err |-> Some(e), value |-> None] : e \in ErrorKinds }
    \cup IF task_id \in Ids THEN { [err |-> None, value |-> None] } ELSE {}

ListOutcomes(show_completed) ==
    { [err |-> Some(e), value |-> None] : e \in ErrorKinds }
    \cup { [err |-> None, value |-> Some(L)] : L \in Listings(show_completed) }

DefaultList == [id |-> << "@", "d", "e", "f", "a", "u", "l", "t" >>,
                title |-> "My Tasks"]

TaskListsOutcomes ==
    { [err |-> Some(e), value |-> None] : e \in ErrorKinds }
    \cup { [err |-> None, value |-> Some(<< DefaultList >>)] }

AnyStatus == {"needsAction", "completed"}

\* -------------------------------------------------------------- TaskService

\* str(reference)
StrOf(reference) ==
    IF reference.kind = "str" THEN reference.str ELSE Str(reference.int)

\* Variant: no fallback, an unresolved reference goes out as the empty id.
resolve_without_fallback(c, reference) ==
    LET task_id == get_task_id(c, reference, FALSE)
    IN  IF Falsy(task_id) THEN << >> ELSE task_id[1]

\* task_id = self.cache.get_task_id(reference)
\* if not task_id: task_id = str(reference)
resolve(c, reference) ==
    LET task_id == get_task_id(c, reference, FALSE)
    IN  IF Falsy(task_id) THEN StrOf(reference) ELSE task_id[1]

\* Variant: the method wraps whatever the adapter raised in APIError.
Delegate_translating(call, oc) ==
    /\ api_call' = Some(call)
    /\ api_error' = oc.err
    /\ raised' = IF oc.err = None THEN None ELSE Some("APIError")
    /\ result' = oc.value
    /\ UNCHANGED << cache, fetched >>

\* `return self.api.<op>(...)`: the adapter's value is the method's value and
\* the adapter's error leaves the method as it is; nothing else is touched.
Delegate(call, oc) ==
    /\ api_call' = Some(call)
    /\ api_error' = oc.err
    /\ raised' = oc.err
    /\ result' = oc.value
    /\ UNCHANGED << cache, fetched >>

\* TaskService.list_task_lists()
list_task_lists(oc) ==
    Delegate([op |-> "list_task_lists"], oc)

\* TaskService.get_task(list_id, reference)
get_task(reference, oc) ==
    Delegate([op |-> "get_task", task_id |-> resolve(cache, reference)], oc)

\* TaskService.create_task(list_id, title, notes, due)
create_task(title, oc) ==
    Delegate([op |-> "create_task", title |-> title], oc)

\* TaskService.update_task(list_id, reference, title, notes, due, status)
update_task(reference, oc) ==
    Delegate([op |-> "update_task", task_id |-> resolve(cache, reference)], oc)

\* TaskService.delete_task(list_id, reference)
delete_task(reference, oc) ==
    Delegate([op |-> "delete_task", task_id |-> resolve(cache, reference)], oc)

\* TaskService.complete_task(list_id, reference)
complete_task(reference, oc) ==
    Delegate([op |-> "complete_task", task_id |-> resolve(cache, reference)], oc)

\* TaskService.list_tasks, first statement:
\* tasks = self.api.list_tasks(list_id, show_completed)
list_tasks_call(show_completed, oc) ==
    /\ api_call' = Some([op |-> "list_tasks", show_completed |-> show_completed])
    /\ api_error' = oc.err
    /\ raised' = oc.err
    /\ result' = None
    /\ fetched' = IF oc.err = None THEN oc.value[1] ELSE << >>
    /\ UNCHANGED cache

\* Variant: list_tasks returns without refreshing the cache.
list_tasks_update_skipped ==
    /\ pc = "fetched"
    /\ pc' = "replaced"
    /\ UNCHANGED << cache, disk, cmd, out, last_list, fetched, api_call,
                    api_error, raised, result, retryVars, extVars >>

\* TaskService.list_tasks, second statement:
\* self.cache.update(tasks, show_completed)
list_tasks_update ==
    /\ pc = "fetched"
    /\ cache' = update(cache, fetched, api_call[1].show_completed)
    /\ pc' = "replaced"
    /\ UNCHANGED << disk, cmd, out, last_list, fetched, api_call, api_error,
                    raised, result, retryVars, extVars >>

\* TaskService.list_tasks, third statement: return tasks (the local goes out
\* of scope)
list_tasks_return ==
    /\ result' = Some(fetched)
    /\ fetched' = << >>
    /\ UNCHANGED << cache, api_call, api_error, raised >>

\* ------------------------------------------------------------ CLI formatting

\* f"{i:2d}": right-aligned in a field of width 2.
Pad2(s) == IF Len(s) < 2 THEN << " " >> \o s ELSE s

\* CLIFormatter.format_tasks(tasks): the fields of each printed line
\* f"{i:2d}. {status} {task.title} (ID: {task.id}){due}"
format_tasks(tasks) ==
    IF tasks = << >> THEN [stream |-> "stdout", text |-> "No tasks found."]
    ELSE [stream |-> "stdout",
          lines |-> [i \in 1..Len(tasks) |->
                       [num |-> Pad2(Str(i)),
                        mark |-> IF tasks[i].status = "completed"
                                 THEN "done" ELSE "open",
                        title |-> tasks[i].title,
                        id |-> tasks[i].id]]]

\* CLIFormatter.format_task_lists(task_lists)
format_task_lists(task_lists) ==
    IF task_lists = << >>
    THEN [stream |-> "stdout", text |-> "No task lists found."]
    ELSE [stream |-> "stdout",
          lines |-> [i \in 1..Len(task_lists) |->
                       [num |-> Pad2(Str(i)),
                        mark |-> IF task_lists[i].id = DefaultList.id
                                 THEN "*" ELSE " ",
                        title |-> task_lists[i].title,
                        id |-> task_lists[i].id]]]

\* CLIFormatter.format_success(message), message given as its f-string parts
format_success(parts) == [stream |-> "stdout", success |-> parts]

\* handle_exception(e): only AuthenticationError and APIError have a message
\* of their own; the other kinds are siblings of APIError, not subclasses.
handle_exception(e) ==
    IF e = "AuthenticationError"
    THEN [stream |-> "stderr",
          error |-> << "Authentication failed. Please run 'gtasks auth'." >>]
    ELSE IF e = "APIError"
    THEN [stream |-> "stderr", error |-> << "API Error: ", e >>]
    ELSE [stream |-> "stderr", error |-> << e >>]

\* try: ref = int(reference) / except ValueError: ref = reference
ParseRef(reference) ==
    IF ParseInt(reference).ok THEN IntRef(ParseInt(reference).val)
    ELSE StrRef(reference)

\* REFERENCE arguments typed on the command line.
Args == { Str(i) : i \in 1..(MaxLen + 1) } \cup { T1, << "0", "1" >> }

Titles == { "Buy milk" }

\* Command lines that name no command: nothing, or an option `cli` lacks.
GroupArgv == { << >>, << "--invalid-flag" >> }

NoFile == [kind |-> "missing"]
BadFile == [kind |-> "corrupt"]
NoCmd == [name |-> "none"]

\* --------------------------------------------------------- CLI invocation

\* cli/main.py module level: _cache = TaskCache.load(...), _service = ...
bootstrap ==
    /\ pc = "down"
    /\ cache' = load(disk)
    /\ pc' = "ready"
    /\ cmd' = NoCmd
    /\ out' = None
    /\ fetched' = << >>
    /\ api_call' = None
    /\ api_error' = None
    /\ raised' = None
    /\ result' = None
    /\ c_launched' = 0
    /\ c_exit' = None
    /\ UNCHANGED << disk, last_list, retryVars, adapterVars, modelVars,
                    tuiVars >>

\* `list [--completed]`, up to the adapter's answer inside service.list_tasks
cli_list_call(completed) ==
    /\ pc = "ready"
    /\ \E oc \in ListOutcomes(completed) :
         /\ list_tasks_call(completed, oc)
         /\ IF oc.err = None
            THEN pc' = "fetched" /\ out' = out
            ELSE pc' = "done" /\ out' = Some(handle_exception(oc.err[1]))
    /\ cmd' = [name |-> "list", completed |-> completed]
    /\ UNCHANGED << disk, last_list, retryVars, extVars >>

\* `list`: service.list_tasks returns and the listing is echoed
cli_list_echo ==
    /\ pc = "replaced"
    /\ cmd.name = "list"
    /\ list_tasks_return
    /\ out' = Some(format_tasks(fetched))
    /\ last_list' = Some([completed |-> cmd.completed,
                          ids |-> [i \in 1..Len(fetched) |-> fetched[i].id]])
    /\ pc' = "done"
    /\ UNCHANGED << disk, cmd, retryVars, extVars >>

\* `complete REFERENCE`
cli_complete(reference) ==
    /\ pc = "ready"
    /\ \E oc \in TaskOutcomes(resolve(cache, ParseRef(reference)), {"completed"}) :
         /\ complete_task(ParseRef(reference), oc)
         /\ out' = IF oc.err = None
                   THEN Some(format_success(<< "Completed: ", oc.value[1].title >>))
                   ELSE Some(handle_exception(oc.err[1]))
    /\ cmd' = [name |-> "complete", reference |-> reference]
    /\ pc' = "done"
    /\ UNCHANGED << disk, last_list, retryVars, extVars >>

\* `update REFERENCE [--title ...]`
cli_update(reference) ==
    /\ pc = "ready"
    /\ \E oc \in TaskOutcomes(resolve(cache, ParseRef(reference)), AnyStatus) :
         /\ update_task(ParseRef(reference), oc)
         /\ out' = IF oc.err = None
                   THEN Some(format_success(<< "Updated: ", oc.value[1].title >>))
                   ELSE Some(handle_exception(oc.err[1]))
    /\ cmd' = [name |-> "update", reference |-> reference]
    /\ pc' = "done"
    /\ UNCHANGED << disk, last_list, retryVars, extVars >>

\* `delete REFERENCE`
cli_delete(reference) ==
    /\ pc = "ready"
    /\ \E oc \in DeleteOutcomes(resolve(cache, ParseRef(reference))) :
         /\ delete_task(ParseRef(reference), oc)
         /\ out' = IF oc.err = None
                   THEN Some(format_success(<< "Deleted task." >>))
                   ELSE Some(handle_exception(oc.err[1]))
    /\ cmd' = [name |-> "delete", reference |-> reference]
    /\ pc' = "done"
    /\ UNCHANGED << disk, last_list, retryVars, extVars >>

\* `create TITLE`: the remote service assigns the id
cli_create(title) ==
    /\ pc = "ready"
    /\ \E id \in Ids : \E oc \in TaskOutcomes(id, {"needsAction"}) :
         /\ create_task(title, oc)
         /\ out' = IF oc.err = None
                   THEN Some(format_success(<< "Created: ", oc.value[1].title,
                                               " (ID: ", oc.value[1].id, ")" >>))
                   ELSE Some(handle_exception(oc.err[1]))
    /\ cmd' = [name |-> "create", title |-> title]
    /\ pc' = "done"
    /\ UNCHANGED << disk, last_list, retryVars, extVars >>

\* `update`/`create` with a --due that datetime.fromisoformat rejects: the
\* ValueError is handled before the service is called.
cli_bad_due(name) ==
    /\ pc = "ready"
    /\ cmd' = [name |-> name, reference |-> << >>]
    /\ out' = Some(handle_exception("ValueError"))
    /\ pc' = "done"
    /\ UNCHANGED << svcVars, disk, last_list, retryVars, extVars >>

\* `lists`
cli_lists ==
    /\ pc = "ready"
    /\ \E oc \in TaskListsOutcomes :
         /\ list_task_lists(oc)
         /\ out' = IF oc.err = None
                   THEN Some(format_task_lists(oc.value[1]))
                   ELSE Some(handle_exception(oc.err[1]))
    /\ cmd' = [name |-> "lists"]
    /\ pc' = "done"
    /\ UNCHANGED << disk, last_list, retryVars, extVars >>

\* Variant: the invocation ends without writing the cache file.
process_result_unsaved ==
    /\ pc = "done"
    /\ pc' = "down"
    /\ c_exit' = Some(0)
    /\ UNCHANGED << svcVars, disk, cmd, out, last_list, retryVars,
                    adapterVars, modelVars, tuiVars, c_launched >>

\* `gui`: TasksApp(service).run() until the user quits or the app stops.
\* Every load_data that succeeded put its listing in the service's cache,
\* so the cache is as it was or holds the last of these listings. The app
\* takes the terminal over: what `list` printed before is no longer the
\* listing in front of the user.
cli_gui ==
    /\ pc = "ready"
    /\ c_launched' = c_launched + 1
    /\ \E loaded \in BOOLEAN, listing \in Listings(FALSE) :
          cache' = IF loaded THEN update(cache, listing, FALSE) ELSE cache
    /\ cmd' = [name |-> "gui"]
    /\ last_list' = None
    /\ pc' = "done"
    /\ UNCHANGED << fetched, api_call, api_error, raised, result, disk, out,
                    retryVars, adapterVars, modelVars, tuiVars, c_exit >>

\* The command line stops in the group `cli`: with no argument at all
\* click prints the help of the group (the group is not declared with
\* invoke_without_command) and exits, with status 0 or 2 depending on the
\* click release; with an option the group does not know it prints a usage
\* error and exits with 2. No command and no result callback runs.
cli_group_exit(argv, code) ==
    /\ pc = "ready"
    /\ argv = << >> \/ code = 2
    /\ cmd' = [name |-> "cli", argv |-> argv]
    /\ out' = Some([stream |-> IF code = 0 THEN "stdout" ELSE "stderr",
                    usage |-> argv])
    /\ c_exit' = Some(code)
    /\ pc' = "down"
    /\ UNCHANGED << svcVars, disk, last_list, retryVars, adapterVars,
                    modelVars, tuiVars, c_launched >>

\* @cli.result_callback(): _cache.save(CONFIG_DIR / "task_cache.json"), and
\* the process exits with 0.
process_result ==
    /\ pc = "done"
    /\ disk' = save(cache)
    /\ pc' = "down"
    /\ c_exit' = Some(0)
    /\ UNCHANGED << svcVars, cmd, out, last_list, retryVars, adapterVars,
                    modelVars, tuiVars, c_launched >>

\* The adapter, the Task model and the TUI when a specification does not run
\* them.
NoOutcome == [kind |-> "none", error |-> "", value |-> << >>]
AdapterIdle ==
    /\ a_token = "missing"
    /\ a_creds = "none"
    /\ a_service = FALSE
    /\ a_op = "none"
    /\ a_flow = FALSE
    /\ a_sent = << >>
    /\ a_seen = << >>
    /\ a_outcome = NoOutcome
    /\ a_mode = None
    /\ a_umask = {"gw", "ow"}

ShellIdle ==
    /\ c_launched = 0
    /\ c_exit = None

ModelIdle ==
    /\ m_task = [status |-> "needsAction", completed |-> None]
    /\ m_orig = m_task
    /\ m_hist = << >>
    /\ m_clock = 0

TuiIdle ==
    /\ u_service = "TaskService"
    /\ u_alive = FALSE
    /\ u_tasks = << >>
    /\ u_index = None
    /\ u_selected = None
    /\ u_loading = FALSE
    /\ u_workers = << >>
    /\ u_active = None
    /\ u_done = [worker |-> None, remote |-> "", failed |-> FALSE,
                 calls |-> << >>]
    /\ u_event = "none"
    /\ u_remote = [id \in Ids |-> "needsAction"]
    /\ u_rows = << >>

ExtIdle ==
    /\ AdapterIdle
    /\ ModelIdle
    /\ TuiIdle
    /\ ShellIdle

RetryIdle ==
    /\ r_max = 0
    /\ r_attempt = 0
    /\ r_pc = "idle"
    /\ r_seen = << >>
    /\ r_outcome = None

Init ==
    /\ cache = EmptyCache
    /\ disk \in {NoFile, BadFile}
    /\ pc = "down"
    /\ cmd = NoCmd
    /\ fetched = << >>
    /\ api_call = None
    /\ api_error = None
    /\ raised = None
    /\ result = None
    /\ out = None
    /\ last_list = None
    /\ RetryIdle
    /\ ExtIdle

Next ==
    \/ bootstrap
    \/ \E completed \in BOOLEAN : cli_list_call(completed)
    \/ list_tasks_update
    \/ cli_list_echo
    \/ \E reference \in Args : cli_complete(reference)
    \/ \E reference \in Args : cli_update(reference)
    \/ \E reference \in Args : cli_delete(reference)
    \/ \E title \in Titles : cli_create(title)
    \/ \E name \in {"create", "update"} : cli_bad_due(name)
    \/ cli_lists
    \/ cli_gui
    \/ \E argv \in GroupArgv, code \in {0, 2} : cli_group_exit(argv, code)
    \/ process_result

Spec == Init /\ [][Next]_vars

\* ------------------------------------------ TaskService under any caller
\* The service and its in-memory cache as the TUI and the unit tests drive
\* them: any method, any reference, any number of calls in one process.

Refs ==
    { IntRef(i) : i \in (0 - 1)..(MaxLen + 1) }
    \cup { StrRef(s) : s \in { T1, << "1" >>, << >> } }

call_list_task_lists ==
    /\ pc = "ready"
    /\ \E oc \in TaskListsOutcomes : list_task_lists(oc)
    /\ cmd' = [name |-> "list_task_lists"]
    /\ UNCHANGED << pc, disk, out, last_list, retryVars, extVars >>

call_get_task(reference) ==
    /\ pc = "ready"
    /\ \E oc \in TaskOutcomes(resolve(cache, reference), AnyStatus) :
         get_task(reference, oc)
    /\ cmd' = [name |-> "get_task", reference |-> reference]
    /\ UNCHANGED << pc, disk, out, last_list, retryVars, extVars >>

call_create_task(title) ==
    /\ pc = "ready"
    /\ \E id \in Ids : \E oc \in TaskOutcomes(id, {"needsAction"}) :
         create_task(title, oc)
    /\ cmd' = [name |-> "create_task", title |-> title]
    /\ UNCHANGED << pc, disk, out, last_list, retryVars, extVars >>

call_update_task(reference) ==
    /\ pc = "ready"
    /\ \E oc \in TaskOutcomes(resolve(cache, reference), AnyStatus) :
         update_task(reference, oc)
    /\ cmd' = [name |-> "update_task", reference |-> reference]
    /\ UNCHANGED << pc, disk, out, last_list, retryVars, extVars >>

call_delete_task(reference) ==
    /\ pc = "ready"
    /\ \E oc \in DeleteOutcomes(resolve(cache, reference)) :
         delete_task(reference, oc)
    /\ cmd' = [name |-> "delete_task", reference |-> reference]
    /\ UNCHANGED << pc, disk, out, last_list, retryVars, extVars >>

call_complete_task(reference) ==
    /\ pc = "ready"
    /\ \E oc \in TaskOutcomes(resolve(cache, reference), {"completed"}) :
         complete_task(reference, oc)
    /\ cmd' = [name |-> "complete_task", reference |-> reference]
    /\ UNCHANGED << pc, disk, out, last_list, retryVars, extVars >>

call_list_tasks(show_completed) ==
    /\ pc = "ready"
    /\ \E oc \in ListOutcomes(show_completed) :
         /\ list_tasks_call(show_completed, oc)
         /\ pc' = IF oc.err = None THEN "fetched" ELSE "ready"
    /\ cmd' = [name |-> "list_tasks", completed |-> show_completed]
    /\ UNCHANGED << disk, out, last_list, retryVars, extVars >>

\* list_tasks hands its tasks to the caller
call_list_tasks_return ==
    /\ pc = "replaced"
    /\ cmd.name = "list_tasks"
    /\ list_tasks_return
    /\ pc' = "ready"
    /\ UNCHANGED << disk, cmd, out, last_list, retryVars, extVars >>

InitService ==
    /\ cache = EmptyCache
    /\ disk = NoFile
    /\ pc = "ready"
    /\ cmd = NoCmd
    /\ fetched = << >>
    /\ api_call = None
    /\ api_error = None
    /\ raised = None
    /\ result = None
    /\ out = None
    /\ last_list = None
    /\ RetryIdle
    /\ ExtIdle

NextService ==
    \/ call_list_task_lists
    \/ \E reference \in Refs : call_get_task(reference)
    \/ \E title \in Titles : call_create_task(title)
    \/ \E reference \in Refs : call_update_task(reference)
    \/ \E reference \in Refs : call_delete_task(reference)
    \/ \E reference \in Refs : call_complete_task(reference)
    \/ \E show_completed \in BOOLEAN : call_list_tasks(show_completed)
    \/ list_tasks_update
    \/ call_list_tasks_return

SpecService == InitService /\ [][NextService]_vars

\* ------------------------------------------------------ execute_with_retry

\* What one request_func().execute() can do: return, raise HttpError with a
\* status, or raise something that is not an HttpError.
Statuses == {400, 401, 403, 404, 409, 429, 500, 503}
Responses ==
    { [kind |-> "ok", status |-> 200], [kind |-> "exception", status |-> 0] }
    \cup { [kind |-> "http", status |-> st] : st \in Statuses }

\* Variant: 404 is treated as transient.
attempt_result_retrying_404(resp, attempt, max_retries) ==
    IF resp.kind = "ok" THEN "return"
    ELSE IF resp.kind = "exception" THEN "APIError"
    ELSE IF resp.status = 401 \/ resp.status = 403 THEN "AuthenticationError"
    ELSE IF resp.status = 400 THEN "ValidationError"
    ELSE IF resp.status = 429 \/ resp.status >= 500 \/ resp.status = 404
    THEN IF attempt = max_retries
         THEN IF resp.status = 429 THEN "RateLimitError" ELSE "APIError"
         ELSE "continue"
    ELSE "APIError"

\* Variant: the exhaustion test is off by one.
attempt_result_one_more(resp, attempt, max_retries) ==
    IF resp.kind = "ok" THEN "return"
    ELSE IF resp.kind = "exception" THEN "APIError"
    ELSE IF resp.status = 401 \/ resp.status = 403 THEN "AuthenticationError"
    ELSE IF resp.status = 404 THEN "NotFoundError"
    ELSE IF resp.status = 400 THEN "ValidationError"
    ELSE IF resp.status = 429 \/ resp.status >= 500
    THEN IF attempt = max_retries + 1
         THEN IF resp.status = 429 THEN "RateLimitError" ELSE "APIError"
         ELSE "continue"
    ELSE "APIError"

\* One pass of the loop body for `attempt`: "return", "continue" or the
\* DomainError raised.
attempt_result(resp, attempt, max_retries) ==
    IF resp.kind = "ok" THEN "return"
    ELSE IF resp.kind = "exception" THEN "APIError"
    ELSE IF resp.status = 401 \/ resp.status = 403 THEN "AuthenticationError"
    ELSE IF resp.status = 404 THEN "NotFoundError"
    ELSE IF resp.status = 400 THEN "ValidationError"
    ELSE IF resp.status = 429 \/ resp.status >= 500
    THEN IF attempt = max_retries
         THEN IF resp.status = 429 THEN "RateLimitError" ELSE "APIError"
         ELSE "continue"
    ELSE "APIError"

\* for attempt in range(max_retries + 1): one iteration
retry_attempt(resp) ==
    /\ r_pc = "loop"
    /\ r_attempt <= r_max
    /\ r_seen' = Append(r_seen, resp)
    /\ LET res == attempt_result(resp, r_attempt, r_max)
       IN  IF res = "return"
           THEN r_pc' = "returned" /\ r_outcome' = Some("result")
                /\ r_attempt' = r_attempt
           ELSE IF res = "continue"
           THEN r_pc' = "loop" /\ r_outcome' = None
                /\ r_attempt' = r_attempt + 1
           ELSE r_pc' = "raised" /\ r_outcome' = Some(res)
                /\ r_attempt' = r_attempt
    /\ UNCHANGED << svcVars, cliVars, extVars, r_max >>

\* range(max_retries + 1) is used up (only an empty range gets here): the
\* function falls off its end and returns None.
retry_fall_through ==
    /\ r_pc = "loop"
    /\ r_attempt > r_max
    /\ r_pc' = "returned"
    /\ r_outcome' = Some("None")
    /\ UNCHANGED << svcVars, cliVars, extVars, r_max, r_attempt, r_seen >>

InitRetry ==
    /\ cache = EmptyCache
    /\ disk = NoFile
    /\ pc = "down"
    /\ cmd = NoCmd
    /\ fetched = << >>
    /\ api_call = None
    /\ api_error = None
    /\ raised = None
    /\ result = None
    /\ out = None
    /\ last_list = None
    /\ r_max \in (0 - 1)..MaxRetries
    /\ r_attempt = 0
    /\ r_pc = "loop"
    /\ r_seen = << >>
    /\ r_outcome = None
    /\ ExtIdle

NextRetry ==
    \/ \E resp \in Responses : retry_attempt(resp)
    \/ retry_fall_through

SpecRetry == InitRetry /\ [][NextRetry]_vars

\* ------------------------------------------------------ GoogleTasksAdapter

\* What one .execute() gives the adapter: a body (for tasks.list a page: its
\* items and whether it carries nextPageToken), an HttpError with a status,
\* or an exception that is not an HttpError (no connection).
PageItems == { << >> } \cup { << id >> : id \in Ids }
Replies ==
    { [kind |-> "ok", status |-> 200, items |-> it, next |-> nx] :
        it \in PageItems, nx \in BOOLEAN }
    \cup { [kind |-> r.kind, status |-> r.status, items |-> << >>,
            next |-> FALSE] :
              r \in Responses \ {[kind |-> "ok", status |-> 200]} }

Return(v) == [kind |-> "return", error |-> "", value |-> v]
Raise(kind) == [kind |-> "raise", error |-> kind, value |-> << >>]
Waiting == [kind |-> "waiting", error |-> "", value |-> << >>]
Ran(sent, outcome) == [sent |-> sent, outcome |-> outcome]

\* Permission bits of a file: read and write for user, group and others.
\* open(TOKEN_FILE, "w") asks for all six (0666) when it creates the file,
\* the umask takes its bits away, and a file that exists keeps its bits.
CreateBits == {"ur", "uw", "gr", "gw", "or", "ow"}
OwnerOnly == {"ur", "uw"}
Umasks == { {"gw", "ow"}, {"gr", "gw", "or", "ow"} }

\* StorageAdapter.save_json(filename, data), the bits it leaves on the file:
\* token.json gets chmod(0o600) after the write. Nothing in the program
\* calls it.
save_json(filename, mode, umask) ==
    IF filename = "token.json" THEN Some(OwnerOnly)
    ELSE IF mode = None THEN Some(CreateBits \ umask) ELSE mode

\* _save_credentials, the permission bits it leaves on token.json
save_credentials(mode, umask) ==
    IF mode = None THEN Some(CreateBits \ umask) ELSE mode

\* GoogleTasksAdapter.__init__ / _load_credentials over the token file:
\* << token file, _creds, _service, what the constructor raised >>.
TokenFiles == {"missing", "invalid", "valid", "expired", "refreshable"}
load_credentials(token, refresh_ok) ==
    CASE token = "missing" -> << token, "none", FALSE, NoOutcome >>
      [] token = "invalid" -> << token, "none", FALSE, Raise("ValueError") >>
      [] token = "valid" -> << token, "valid", TRUE, NoOutcome >>
      [] token = "expired" -> << token, "expired", FALSE, NoOutcome >>
      [] token = "refreshable" ->
            IF refresh_ok THEN << "valid", "valid", TRUE, NoOutcome >>
            ELSE << token, "none", FALSE, NoOutcome >>

\* The operations, as far as the answers `seen` take them: the requests
\* executed and what the operation returned or raised.

\* list_task_lists: one request; every HttpError becomes APIError.
adapter_list_task_lists(seen) ==
    LET r == seen[1]
    IN  Ran(<< "tasklists.list" >>,
            IF r.kind = "ok" THEN Return(r.items)
            ELSE IF r.kind = "exception" THEN Raise("Exception")
            ELSE Raise("APIError"))

\* list_tasks: one request, whose items are returned.
adapter_list_tasks(seen) ==
    LET r == seen[1]
    IN  Ran(<< "tasks.list" >>,
            IF r.kind = "ok" THEN Return(r.items)
            ELSE IF r.kind = "exception" THEN Raise("Exception")
            ELSE IF r.status = 404 THEN Raise("NotFoundError")
            ELSE Raise("APIError"))

\* get_task, answered by r.
adapter_get_task(r) ==
    Ran(<< "tasks.get" >>,
        IF r.kind = "ok" THEN Return(r.items)
        ELSE IF r.kind = "exception" THEN Raise("Exception")
        ELSE IF r.status = 404 THEN Raise("NotFoundError")
        ELSE Raise("APIError"))

\* create_task: insert, then self.get_task; what get_task raises is no
\* HttpError and passes the handler.
adapter_create_task(seen) ==
    LET r == seen[1]
    IN  IF r.kind = "ok"
        THEN IF Len(seen) = 1
             THEN Ran(<< "tasks.insert", "tasks.get" >>, Waiting)
             ELSE Ran(<< "tasks.insert" >> \o adapter_get_task(seen[2]).sent,
                      adapter_get_task(seen[2]).outcome)
        ELSE Ran(<< "tasks.insert" >>,
                 IF r.kind = "exception" THEN Raise("Exception")
                 ELSE IF r.status = 400 THEN Raise("ValidationError")
                 ELSE Raise("APIError"))

\* update_task: patch, then self.get_task.
adapter_update_task(seen) ==
    LET r == seen[1]
    IN  IF r.kind = "ok"
        THEN IF Len(seen) = 1
             THEN Ran(<< "tasks.patch", "tasks.get" >>, Waiting)
             ELSE Ran(<< "tasks.patch" >> \o adapter_get_task(seen[2]).sent,
                      adapter_get_task(seen[2]).outcome)
        ELSE Ran(<< "tasks.patch" >>,
                 IF r.kind = "exception" THEN Raise("Exception")
                 ELSE IF r.status = 404 THEN Raise("NotFoundError")
                 ELSE IF r.status = 400 THEN Raise("ValidationError")
                 ELSE Raise("APIError"))

\* delete_task: one request, returns None.
adapter_delete_task(seen) ==
    LET r == seen[1]
    IN  Ran(<< "tasks.delete" >>,
            IF r.kind = "ok" THEN Return(<< >>)
            ELSE IF r.kind = "exception" THEN Raise("Exception")
            ELSE IF r.status = 404 THEN Raise("NotFoundError")
            ELSE Raise("APIError"))

\* complete_task is update_task(status="completed").
adapter_complete_task(seen) == adapter_update_task(seen)

AdapterRun(name, seen) ==
    CASE name = "list_task_lists" -> adapter_list_task_lists(seen)
      [] name = "list_tasks" -> adapter_list_tasks(seen)
      [] name = "get_task" -> adapter_get_task(seen[1])
      [] name = "create_task" -> adapter_create_task(seen)
      [] name = "update_task" -> adapter_update_task(seen)
      [] name = "delete_task" -> adapter_delete_task(seen)
      [] name = "complete_task" -> adapter_complete_task(seen)

\* The first line of every operation, _ensure_authenticated(), up to the
\* first request `first`. Without _service, authenticate() runs the OAuth
\* flow in the browser: granted, it saves the credentials, builds the
\* service and returns True, so the operation goes on; otherwise the flow's
\* own exception leaves the operation. authenticate() never returns False.
ensure_authenticated(first, flow) ==
    /\ a_outcome.kind # "waiting"
    /\ a_outcome # Raise("ValueError")
    /\ a_flow' = ~a_service
    /\ a_seen' = << >>
    /\ IF a_service \/ flow = "granted"
       THEN /\ a_service' = TRUE
            /\ a_creds' = IF a_service THEN a_creds ELSE "valid"
            /\ a_token' = IF a_service THEN a_token ELSE "valid"
            /\ a_mode' = IF a_service THEN a_mode
                         ELSE save_credentials(a_mode, a_umask)
            /\ a_sent' = << first >>
            /\ a_outcome' = Waiting
       ELSE /\ a_sent' = << >>
            /\ a_outcome' = Raise("Exception")
            /\ UNCHANGED << a_service, a_creds, a_token, a_mode >>
    /\ UNCHANGED << a_umask, notAdapter >>

Flows == {"granted", "failed"}

call_adapter_list_task_lists(flow) ==
    /\ a_op' = "list_task_lists"
    /\ ensure_authenticated("tasklists.list", flow)

call_adapter_list_tasks(flow) ==
    /\ a_op' = "list_tasks"
    /\ ensure_authenticated("tasks.list", flow)

call_adapter_get_task(flow) ==
    /\ a_op' = "get_task"
    /\ ensure_authenticated("tasks.get", flow)

call_adapter_create_task(flow) ==
    /\ a_op' = "create_task"
    /\ ensure_authenticated("tasks.insert", flow)

call_adapter_update_task(flow) ==
    /\ a_op' = "update_task"
    /\ ensure_authenticated("tasks.patch", flow)

call_adapter_delete_task(flow) ==
    /\ a_op' = "delete_task"
    /\ ensure_authenticated("tasks.delete", flow)

call_adapter_complete_task(flow) ==
    /\ a_op' = "complete_task"
    /\ ensure_authenticated("tasks.patch", flow)

\* .execute() of the pending request comes back with `reply`, and the
\* operation runs on to its next request or to its end.
adapter_execute(reply) ==
    /\ a_outcome.kind = "waiting"
    /\ a_seen' = Append(a_seen, reply)
    /\ a_sent' = AdapterRun(a_op, a_seen').sent
    /\ a_outcome' = AdapterRun(a_op, a_seen').outcome
    /\ UNCHANGED << a_token, a_creds, a_service, a_op, a_flow, a_mode,
                    a_umask >>
    /\ UNCHANGED notAdapter

\* `gtasks auth [--force]`: authenticate(force_reauth). Valid credentials
\* are kept unless forced; otherwise the OAuth flow runs and, granted, the
\* new credentials are saved and the service is built.
authenticate(force_reauth, flow) ==
    /\ a_outcome.kind # "waiting"
    /\ a_outcome # Raise("ValueError")
    /\ a_op' = "authenticate"
    /\ a_sent' = << >>
    /\ a_seen' = << >>
    /\ IF ~force_reauth /\ a_creds = "valid"
       THEN /\ a_flow' = FALSE
            /\ a_outcome' = Return(<< >>)
            /\ UNCHANGED << a_service, a_creds, a_token, a_mode >>
       ELSE /\ a_flow' = TRUE
            /\ IF flow = "granted"
               THEN /\ a_service' = TRUE
                    /\ a_creds' = "valid"
                    /\ a_token' = "valid"
                    /\ a_mode' = save_credentials(a_mode, a_umask)
                    /\ a_outcome' = Return(<< >>)
               ELSE /\ a_outcome' = Raise("Exception")
                    /\ UNCHANGED << a_service, a_creds, a_token, a_mode >>
    /\ UNCHANGED << a_umask, notAdapter >>

\* `gtasks logout`: TOKEN_FILE.unlink() when the file exists. The adapter
\* object keeps what it holds.
logout ==
    /\ a_outcome.kind # "waiting"
    /\ a_outcome # Raise("ValueError")
    /\ a_op' = "logout"
    /\ a_token' = "missing"
    /\ a_mode' = None
    /\ a_outcome' = Return(<< >>)
    /\ a_sent' = << >>
    /\ a_seen' = << >>
    /\ UNCHANGED << a_creds, a_service, a_flow, a_umask, notAdapter >>

\* The next process: GoogleTasksAdapter() reads the token file as the last
\* process left it; a refresh that succeeds saves the credentials.
adapter_init(refresh_ok) ==
    /\ a_outcome.kind # "waiting"
    /\ a_op # "none"
    /\ LET loaded == load_credentials(a_token, refresh_ok)
       IN  /\ a_token' = loaded[1]
           /\ a_creds' = loaded[2]
           /\ a_service' = loaded[3]
           /\ a_outcome' = loaded[4]
           /\ a_mode' = IF a_token = "refreshable" /\ refresh_ok
                        THEN save_credentials(a_mode, a_umask)
                        ELSE a_mode
    /\ a_op' = "none"
    /\ a_flow' = FALSE
    /\ a_sent' = << >>
    /\ a_seen' = << >>
    /\ UNCHANGED << a_umask, notAdapter >>

InitAdapter ==
    /\ cache = EmptyCache
    /\ disk = NoFile
    /\ pc = "down"
    /\ cmd = NoCmd
    /\ fetched = << >>
    /\ api_call = None
    /\ api_error = None
    /\ raised = None
    /\ result = None
    /\ out = None
    /\ last_list = None
    /\ RetryIdle
    /\ \E token \in TokenFiles, refresh_ok \in BOOLEAN :
          LET loaded == load_credentials(token, refresh_ok)
          IN  /\ a_token = loaded[1]
              /\ a_creds = loaded[2]
              /\ a_service = loaded[3]
              /\ a_outcome = loaded[4]
              /\ a_mode = IF token = "missing" THEN None
                          ELSE Some(OwnerOnly)
    /\ a_op = "none"
    /\ a_flow = FALSE
    /\ a_sent = << >>
    /\ a_seen = << >>
    /\ a_umask \in Umasks
    /\ ModelIdle
    /\ TuiIdle
    /\ ShellIdle

NextAdapter ==
    \/ \E flow \in Flows : call_adapter_list_task_lists(flow)
    \/ \E flow \in Flows : call_adapter_list_tasks(flow)
    \/ \E flow \in Flows : call_adapter_get_task(flow)
    \/ \E flow \in Flows : call_adapter_create_task(flow)
    \/ \E flow \in Flows : call_adapter_update_task(flow)
    \/ \E flow \in Flows : call_adapter_delete_task(flow)
    \/ \E flow \in Flows : call_adapter_complete_task(flow)
    \/ \E reply \in Replies : adapter_execute(reply)
    \/ \E force_reauth \in BOOLEAN, flow \in Flows :
          authenticate(force_reauth, flow)
    \/ logout
    \/ \E refresh_ok \in BOOLEAN : adapter_init(refresh_ok)

SpecAdapter == InitAdapter /\ [][NextAdapter]_vars

\* ---------------------------------------------------------------- Task model

\* The calls made on one Task object.
MaxCalls == 4

TaskStatus == {"needsAction", "completed"}

\* Task.mark_complete at time `now`
mark_complete(t, now) ==
    IF t.status # "completed"
    THEN [t EXCEPT !.status = "completed", !.completed = Some(now)]
    ELSE t

\* Variant: the timestamp is left in place.
mark_incomplete_keeping_timestamp(t) ==
    IF t.status # "needsAction"
    THEN [t EXCEPT !.status = "needsAction"]
    ELSE t

\* Task.mark_incomplete
mark_incomplete(t) ==
    IF t.status # "needsAction"
    THEN [t EXCEPT !.status = "needsAction", !.completed = None]
    ELSE t

Called(op, next) ==
    /\ Len(m_hist) < MaxCalls
    /\ m_task' = next
    /\ m_hist' = Append(m_hist, [op |-> op, before |-> m_task.status,
                                 after |-> next.status])
    /\ m_clock' = m_clock + 1
    /\ UNCHANGED << m_orig, notModel >>

call_mark_complete ==
    /\ m_clock > 0
    /\ Called("mark_complete", mark_complete(m_task, m_clock))

call_mark_incomplete ==
    /\ m_clock > 0
    /\ Called("mark_incomplete", mark_incomplete(m_task))

\* Task(...) as the dataclass builds it: any status with any timestamp (no
\* __post_init__ check).
InitModel ==
    /\ cache = EmptyCache
    /\ disk = NoFile
    /\ pc = "down"
    /\ cmd = NoCmd
    /\ fetched = << >>
    /\ api_call = None
    /\ api_error = None
    /\ raised = None
    /\ result = None
    /\ out = None
    /\ last_list = None
    /\ RetryIdle
    /\ AdapterIdle
    /\ m_task \in [status : TaskStatus, completed : {None, Some(0)}]
    /\ m_orig = m_task
    /\ m_hist = << >>
    /\ m_clock = 1
    /\ TuiIdle
    /\ ShellIdle

NextModel ==
    \/ call_mark_complete
    \/ call_mark_incomplete

SpecModel == InitModel /\ [][NextModel]_vars

\* ------------------------------------------------------------------ TasksApp

\* Workers created and not yet started.
MaxWorkers == 2

\* What TasksApp(service) is built over: cli/main.py passes the TaskService,
\* the integration tests a Mock that accepts any call.
Services == {"TaskService", "Mock"}

\* A Task as the remote delivers it to the TUI: the timestamp comes with the
\* COMPLETED status.
TuiTask(t) ==
    [id |-> t.id, title |-> t.title, status |-> t.status,
     completed |-> IF t.status = "completed" THEN Some(0) ELSE None]

TuiTasks(listing) == [k \in 1..Len(listing) |-> TuiTask(listing[k])]

\* The workers @work creates.
LoadWorker == [kind |-> "load_data", task_id |-> << >>, old_status |-> ""]
PersistWorker(task_id, old_status) ==
    [kind |-> "_persist_toggle", task_id |-> task_id,
     old_status |-> old_status]

\* What a finished worker leaves: the worker, what the remote did ("ok" or
\* the error kind), whether the worker's call raised, and the calls that
\* reached the adapter.
NoneDone == [worker |-> None, remote |-> "", failed |-> FALSE,
             calls |-> << >>]
Done(w, remote, failed, calls) ==
    [worker |-> Some(w), remote |-> remote, failed |-> failed,
     calls |-> calls]

\* _update_selected_task: selected_task_id for list_view.index (0-based)
update_selected_task(tasks, index) ==
    IF index # None /\ 0 <= index[1] /\ index[1] < Len(tasks)
    THEN Some(tasks[index[1] + 1].id)
    ELSE None

\* watch_tasks, the status of a row: "check" is the glyph U+2713, "circle"
\* the glyph U+25CB.
Marker(status) == IF status = "completed" THEN "check" ELSE "circle"

\* watch_tasks: list_view.clear() drops the highlight, one row is appended
\* per task, a non-empty list gets index 0, and selected_task_id follows:
\* << index, selected_task_id, rows >>.
watch_tasks(tasks) ==
    LET index == IF Len(tasks) > 0 THEN Some(0) ELSE None
    IN  << index, update_selected_task(tasks, index),
           [k \in 1..Len(tasks) |-> Marker(tasks[k].status)] >>

\* self.tasks = tasks: the reactive calls watch_tasks when the value differs
\* from the one held.
SetTasks(tasks) ==
    /\ u_tasks' = tasks
    /\ IF tasks # u_tasks
       THEN /\ u_index' = watch_tasks(tasks)[1]
            /\ u_selected' = watch_tasks(tasks)[2]
            /\ u_rows' = watch_tasks(tasks)[3]
       ELSE UNCHANGED << u_index, u_selected, u_rows >>

Flip(status) ==
    IF status = "needsAction" THEN "completed" ELSE "needsAction"

\* Variant: every task of the list is flipped.
toggle_completion_of_all(tasks, selected_task_id) ==
    [k \in 1..Len(tasks) |-> [tasks[k] EXCEPT !.status = Flip(@)]]

\* _toggle_completion, the list it builds: a copy of every task, the one with
\* the selected id carrying the other status (and its old timestamp).
toggle_completion(tasks, selected_task_id) ==
    [k \in 1..Len(tasks) |->
        IF tasks[k].id = selected_task_id
        THEN [tasks[k] EXCEPT !.status = Flip(@)]
        ELSE tasks[k]]

\* Variant: the failure is only logged.
revert_toggle_skipped(tasks, task_id, old_status) == tasks

\* _revert_toggle: the first task with that id gets old_status in place.
revert_toggle(tasks, task_id, old_status) ==
    LET hits == { k \in 1..Len(tasks) : tasks[k].id = task_id }
    IN  IF hits = {} THEN tasks
        ELSE LET first == CHOOSE k \in hits : \A j \in hits : k <= j
             IN  [tasks EXCEPT ![first].status = old_status]

\* No handler runs while a worker is on the event loop: both workers are
\* coroutines that call the service synchronously, without an await.
HandlerMayRun ==
    /\ u_alive
    /\ u_event # "none"
    /\ u_active = None

\* on_mount: load_data()
on_mount ==
    /\ u_event = "none"
    /\ u_alive
    /\ u_event' = "on_mount"
    /\ u_workers' = Append(u_workers, LoadWorker)
    /\ UNCHANGED << u_service, u_alive, u_tasks, u_index, u_selected,
                    u_loading, u_active, u_done, u_remote, u_rows, notTui >>

\* key r: action_refresh
action_refresh ==
    /\ HandlerMayRun
    /\ Len(u_workers) < MaxWorkers
    /\ u_event' = "action_refresh"
    /\ u_workers' = Append(u_workers, LoadWorker)
    /\ UNCHANGED << u_service, u_alive, u_tasks, u_index, u_selected,
                    u_loading, u_active, u_done, u_remote, u_rows, notTui >>

\* Variant: j moves the highlight down whatever the length of the list.
action_cursor_down_unclamped ==
    /\ HandlerMayRun
    /\ u_event' = "action_cursor_down"
    /\ IF Len(u_tasks) > 0
       THEN LET current_index == IF u_index = None THEN 0 ELSE u_index[1]
                index == Some(current_index + 1)
            IN  /\ u_index' = index
                /\ u_selected' = update_selected_task(u_tasks, index)
       ELSE UNCHANGED << u_index, u_selected >>
    /\ UNCHANGED << u_service, u_alive, u_tasks, u_loading, u_workers,
                    u_active, u_done, u_remote, u_rows, notTui >>

\* key j: action_cursor_down
action_cursor_down ==
    /\ HandlerMayRun
    /\ u_event' = "action_cursor_down"
    /\ IF Len(u_tasks) > 0
       THEN LET current_index == IF u_index = None THEN 0 ELSE u_index[1]
                index == IF current_index < Len(u_tasks) - 1
                         THEN Some(current_index + 1) ELSE u_index
            IN  /\ u_index' = index
                /\ u_selected' = update_selected_task(u_tasks, index)
       ELSE UNCHANGED << u_index, u_selected >>
    /\ UNCHANGED << u_service, u_alive, u_tasks, u_loading, u_workers,
                    u_active, u_done, u_remote, u_rows, notTui >>

\* key k: action_cursor_up
action_cursor_up ==
    /\ HandlerMayRun
    /\ u_event' = "action_cursor_up"
    /\ IF Len(u_tasks) > 0
       THEN LET current_index == IF u_index = None THEN 0 ELSE u_index[1]
                index == IF current_index > 0
                         THEN Some(current_index - 1) ELSE u_index
            IN  /\ u_index' = index
                /\ u_selected' = update_selected_task(u_tasks, index)
       ELSE UNCHANGED << u_index, u_selected >>
    /\ UNCHANGED << u_service, u_alive, u_tasks, u_loading, u_workers,
                    u_active, u_done, u_remote, u_rows, notTui >>

\* Variant: a task whose update is still queued is busy, and a toggle of it
\* is dropped.
action_toggle_completion_guarded ==
    /\ HandlerMayRun
    /\ Len(u_workers) < MaxWorkers
    /\ u_event' = "action_toggle_completion"
    /\ LET found == { k \in 1..Len(u_tasks) :
                        u_selected # None /\ u_tasks[k].id = u_selected[1] }
           busy == \E k \in 1..Len(u_workers) :
                      /\ u_selected # None
                      /\ u_workers[k].task_id = u_selected[1]
       IN  IF found = {} \/ busy
           THEN UNCHANGED << u_tasks, u_index, u_selected, u_rows,
                             u_workers >>
           ELSE LET task == u_tasks[CHOOSE k \in found :
                                       \A j \in found : k <= j]
                IN  /\ SetTasks(toggle_completion(u_tasks, u_selected[1]))
                    /\ u_workers' = Append(u_workers,
                                       PersistWorker(task.id, task.status))
    /\ UNCHANGED << u_service, u_alive, u_loading, u_active, u_done,
                    u_remote, notTui >>

\* key enter: action_toggle_completion / _toggle_completion
action_toggle_completion ==
    /\ HandlerMayRun
    /\ Len(u_workers) < MaxWorkers
    /\ u_event' = "action_toggle_completion"
    /\ LET found == { k \in 1..Len(u_tasks) :
                        u_selected # None /\ u_tasks[k].id = u_selected[1] }
       IN  IF found = {}
           THEN UNCHANGED << u_tasks, u_index, u_selected, u_rows,
                             u_workers >>
           ELSE LET task == u_tasks[CHOOSE k \in found :
                                       \A j \in found : k <= j]
                IN  /\ SetTasks(toggle_completion(u_tasks, u_selected[1]))
                    /\ u_workers' = Append(u_workers,
                                       PersistWorker(task.id, task.status))
    /\ UNCHANGED << u_service, u_alive, u_loading, u_active, u_done,
                    u_remote, notTui >>

\* The event loop starts the oldest worker; load_data sets loading_state and
\* calls the service.
worker_start ==
    /\ u_alive
    /\ u_active = None
    /\ u_workers # << >>
    /\ u_event' = "worker"
    /\ u_active' = Some(Head(u_workers))
    /\ u_workers' = Tail(u_workers)
    /\ u_loading' = (u_loading \/ Head(u_workers).kind = "load_data")
    /\ UNCHANGED << u_service, u_alive, u_tasks, u_index, u_selected,
                    u_done, u_remote, u_rows, notTui >>

AdapterCall(op, task_id, status) ==
    [op |-> op, task_id |-> task_id, status |-> status]

\* What service.list_tasks(current_list_id) can give: over the TaskService
\* show_completed is left at False, the Mock returns what the test set.
ActiveListOutcomes == ListOutcomes(FALSE)
AnyListOutcomes == ListOutcomes(TRUE)

\* load_data returns from its calls: service.list_task_lists() gave
\* oc_lists, service.list_tasks(current_list_id) gave oc_tasks (over the
\* TaskService an active listing, which it also puts in the cache). The
\* finally clause clears loading_state; an error leaves the worker, and a
\* worker that fails ends the app (@work, exit_on_error left at its default),
\* so the workers still queued never start. A listing carries the statuses
\* the remote holds.
load_data_end(oc_lists, oc_tasks) ==
    /\ u_active = Some(LoadWorker)
    /\ u_service = "TaskService" => oc_tasks \in ActiveListOutcomes
    /\ oc_tasks.err = None =>
          \A k \in 1..Len(oc_tasks.value[1]) :
             oc_tasks.value[1][k].status = u_remote[oc_tasks.value[1][k].id]
    /\ u_event' = "worker"
    /\ u_active' = None
    /\ u_loading' = FALSE
    /\ LET error == IF oc_lists.err # None THEN oc_lists.err ELSE oc_tasks.err
           calls == IF u_service # "TaskService" THEN << >>
                    ELSE IF oc_lists.err # None
                    THEN << AdapterCall("list_task_lists", << >>, "") >>
                    ELSE << AdapterCall("list_task_lists", << >>, ""),
                            AdapterCall("list_tasks", << >>, "") >>
       IN  IF error # None
           THEN /\ u_alive' = FALSE
                /\ u_done' = Done(LoadWorker, error[1], TRUE, calls)
                /\ UNCHANGED << u_tasks, u_index, u_selected, u_rows,
                                cache >>
           ELSE /\ u_alive' = u_alive
                /\ u_done' = Done(LoadWorker, "ok", FALSE, calls)
                /\ SetTasks(TuiTasks(oc_tasks.value[1]))
                /\ cache' = IF u_service = "TaskService"
                            THEN update(cache, oc_tasks.value[1], FALSE)
                            ELSE cache
    /\ UNCHANGED << u_service, u_workers, u_remote, tuiRest >>

\* _persist_toggle returns from service.update_task(current_list_id, task_id,
\* status=new_status, completed_cache=False). TaskService.update_task has no
\* parameter completed_cache, so over the TaskService the call raises
\* TypeError before anything is sent; the Mock does what `remote` says, and
\* a remote that accepts the update holds the new status.
\* except Exception: _revert_toggle, log. Nothing redraws the rows.
persist_toggle_end(remote) ==
    /\ u_active # None
    /\ u_active[1].kind = "_persist_toggle"
    /\ u_event' = "worker"
    /\ u_active' = None
    /\ LET w == u_active[1]
           failed == u_service = "TaskService" \/ remote # "ok"
       IN  /\ u_tasks' = IF failed
                         THEN revert_toggle(u_tasks, w.task_id, w.old_status)
                         ELSE u_tasks
           /\ u_remote' = IF failed THEN u_remote
                          ELSE [u_remote EXCEPT ![w.task_id] =
                                                   Flip(w.old_status)]
           /\ u_done' = Done(w, remote, failed, << >>)
    /\ UNCHANGED << u_service, u_alive, u_index, u_selected, u_loading,
                    u_workers, u_rows, notTui >>

Remotes == {"ok"} \cup ErrorKinds

InitTui ==
    /\ cache = EmptyCache
    /\ disk = NoFile
    /\ pc = "ready"
    /\ cmd = NoCmd
    /\ fetched = << >>
    /\ api_call = None
    /\ api_error = None
    /\ raised = None
    /\ result = None
    /\ out = None
    /\ last_list = None
    /\ RetryIdle
    /\ AdapterIdle
    /\ ModelIdle
    /\ ShellIdle
    /\ u_service \in Services
    /\ u_alive = TRUE
    /\ u_tasks = << >>
    /\ u_index = None
    /\ u_selected = None
    /\ u_loading = FALSE
    /\ u_workers = << >>
    /\ u_active = None
    /\ u_done = NoneDone
    /\ u_event = "none"
    /\ u_remote \in [Ids -> TaskStatus]
    /\ u_rows = << >>

NextTui ==
    \/ on_mount
    \/ action_refresh
    \/ action_cursor_down
    \/ action_cursor_up
    \/ action_toggle_completion
    \/ worker_start
    \/ \E oc_lists \in TaskListsOutcomes, oc_tasks \in AnyListOutcomes :
          load_data_end(oc_lists, oc_tasks)
    \/ \E remote \in Remotes : persist_toggle_end(remote)

SpecTui == InitTui /\ [][NextTui]_vars

\* ===================================================================
\* Properties
\* ===================================================================

\* Integer references tried against a cache: both sides of 1..n.
Indices == (0 - 1)..(MaxLen + 2)

Range(f) == { f[x] : x \in DOMAIN f }

\* The partition the running list_tasks call refreshes.
ListedPartition == api_call[1].show_completed

\* C1: right after TaskCache.update(L, p), get_task_id(i, p) is L[i-1].id for
\* every i in 1..n and None for every other integer, whatever the partition
\* held before the update.
C1_UpdateThenLookup ==
    pc = "replaced" =>
        \A i \in Indices :
            get_task_id(cache, IntRef(i), ListedPartition)
                = IF i \in 1..Len(fetched) THEN Some(fetched[i].id) ELSE None

\* C1 witness: the file saved by the previous invocation maps index 2 of the
\* active partition, the listing just stored has one task, and index 2 no
\* longer resolves.
C1_Witness ==
    /\ pc = "replaced"
    /\ ~ListedPartition
    /\ Len(fetched) = 1
    /\ disk.kind = "json"
    /\ Str(2) \in DOMAIN disk.data.active_tasks
    /\ disk.data.active_tasks[Str(1)] # fetched[1].id
    /\ get_task_id(cache, IntRef(1), FALSE) = Some(fetched[1].id)
    /\ get_task_id(cache, IntRef(2), FALSE) = None

\* list_tasks has just handed its tasks to the caller.
ListReturned ==
    /\ cmd.name = "list_tasks"
    /\ pc = "ready"
    /\ raised = None
    /\ result # None

\* C2: TaskService.list_tasks calls the adapter, then replaces the mapping of
\* the partition show_completed selects, then returns: the cache changes only
\* after the adapter has answered, and when the caller holds the tasks every
\* index i resolves to the id of the i-th returned task in that partition.
C2_CacheUpdatedBeforeReturn ==
    /\ [](ListReturned =>
            \A i \in Indices :
                get_task_id(cache, IntRef(i), cmd.completed)
                    = IF i \in 1..Len(result[1]) THEN Some(result[1][i].id)
                      ELSE None)
    /\ [][cache' # cache =>
            /\ pc = "fetched"
            /\ api_call = Some([op |-> "list_tasks",
                                show_completed |-> cmd.completed])
            /\ cache' = update(cache, fetched, cmd.completed)]_vars

\* C2 witness: a two-task listing of the completed partition was returned.
C2_Witness ==
    /\ ListReturned
    /\ cmd.completed
    /\ Len(result[1]) = 2
    /\ get_task_id(cache, IntRef(2), TRUE) = Some(result[1][2].id)

\* The invocation that just ran `complete i` for a position i of the listing
\* the most recent `list` (active tasks) printed.
CompletedListed ==
    /\ pc = "done"
    /\ cmd.name = "complete"
    /\ ParseInt(cmd.reference).ok
    /\ last_list # None
    /\ ~last_list[1].completed
    /\ ParseInt(cmd.reference).val \in 1..Len(last_list[1].ids)

\* C3: `list` prints the number i next to the i-th task of the listing and no
\* other, and a later invocation `complete i` calls the adapter's complete
\* operation with that task's id and, when the adapter succeeds, prints a
\* success message with that task's title.
C3_ListThenComplete ==
    /\ (pc = "done" /\ cmd.name = "list" /\ raised = None /\ result[1] # << >>) =>
          /\ Len(out[1].lines) = Len(result[1])
          /\ \A i \in 1..Len(result[1]) :
                /\ ParseInt(out[1].lines[i].num) = [ok |-> TRUE, val |-> i]
                /\ out[1].lines[i].id = result[1][i].id
                /\ out[1].lines[i].title = result[1][i].title
    /\ CompletedListed =>
          LET id == last_list[1].ids[ParseInt(cmd.reference).val]
          IN  /\ api_call = Some([op |-> "complete_task", task_id |-> id])
              /\ api_error = None =>
                    out = Some(format_success(<< "Completed: ", TitleOf(id) >>))

\* C3 witness: `list` printed two tasks and `complete 2` succeeded on the
\* second one.
C3_Witness ==
    /\ CompletedListed
    /\ cmd.reference = Str(2)
    /\ api_error = None
    /\ api_call[1].task_id = TaskId(1)
    /\ out = Some(format_success(<< "Completed: ", "Buy milk" >>))

\* An invocation of complete, update or delete that reached the service with
\* an integer REFERENCE naming a position of the most recent printed listing.
RefCommandDone ==
    /\ pc = "done"
    /\ cmd.name \in {"complete", "update", "delete"}
    /\ api_call # None
    /\ ParseInt(cmd.reference).ok
    /\ last_list # None
    /\ ParseInt(cmd.reference).val \in 1..Len(last_list[1].ids)

\* C4: an integer REFERENCE i given to complete, update or delete resolves to
\* the id shown at position i by the most recent `list` invocation, whichever
\* partition (active or completed) that invocation listed.
C4_ResolvesAgainstLastListing ==
    RefCommandDone =>
        api_call[1].task_id = last_list[1].ids[ParseInt(cmd.reference).val]

\* A reference-taking TaskService method has just run.
RefMethods == {"get_task", "update_task", "delete_task", "complete_task"}
RefCallDone == pc = "ready" /\ cmd.name \in RefMethods

\* C5: for get_task, update_task, delete_task and complete_task an integer
\* reference with no entry in the mapping the service consults (the active
\* one) goes to the adapter as its decimal string, and the only error that
\* can leave the method is the adapter's.
C5_UnresolvedIndexIsLiteral ==
    (/\ RefCallDone
     /\ cmd.reference.kind = "int"
     /\ cmd.reference.int \notin DOMAIN cache.active_tasks) =>
        /\ api_call = Some([op |-> cmd.name,
                            task_id |-> Str(cmd.reference.int)])
        /\ raised = api_error

\* C5 witness: complete_task(1) on an empty cache called the adapter with
\* the id "1".
C5_Witness ==
    /\ RefCallDone
    /\ cmd.name = "complete_task"
    /\ cmd.reference = IntRef(1)
    /\ cache = EmptyCache
    /\ api_call = Some([op |-> "complete_task", task_id |-> << "1" >>])

\* C6: a str reference is never looked up: get_task_id gives it back
\* unchanged for both partitions and any cache contents, and every
\* TaskService method given a str reference passes that very string to the
\* adapter as the task id.
C6_StringReferenceVerbatim ==
    /\ \A ref \in Refs : \A completed \in BOOLEAN :
          ref.kind = "str" =>
              get_task_id(cache, ref, completed) = Some(ref.str)
    /\ (RefCallDone /\ cmd.reference.kind = "str") =>
          api_call = Some([op |-> cmd.name, task_id |-> cmd.reference.str])

\* C6 witness: update_task("1") ran while index 1 of the active partition
\* mapped another id, and the adapter was given "1".
C6_Witness ==
    /\ RefCallDone
    /\ cmd.name = "update_task"
    /\ cmd.reference = StrRef(<< "1" >>)
    /\ 1 \in DOMAIN cache.active_tasks
    /\ 1 \in DOMAIN cache.completed_tasks
    /\ api_call[1].task_id = << "1" >>

\* C7: TaskCache.update on one partition leaves the other partition's
\* mapping as it was, and an integer lookup in one partition never gives an
\* id stored only in the other partition.
C7_PartitionsIndependent ==
    /\ [][(pc = "fetched" /\ pc' = "replaced") =>
            IF ListedPartition
            THEN cache'.active_tasks = cache.active_tasks
            ELSE cache'.completed_tasks = cache.completed_tasks]_vars
    /\ [](\A i \in Indices :
            /\ get_task_id(cache, IntRef(i), FALSE) # None =>
                 get_task_id(cache, IntRef(i), FALSE)[1]
                     \in Range(cache.active_tasks)
            /\ get_task_id(cache, IntRef(i), TRUE) # None =>
                 get_task_id(cache, IntRef(i), TRUE)[1]
                     \in Range(cache.completed_tasks))

\* C7 witness: the active partition was just replaced while the completed
\* partition holds a different, non-empty mapping.
C7_Witness ==
    /\ pc = "replaced"
    /\ ~ListedPartition
    /\ fetched # << >>
    /\ cache.completed_tasks # << >>
    /\ Range(cache.completed_tasks) \cap Range(cache.active_tasks) = {}
    /\ get_task_id(cache, IntRef(1), FALSE) # get_task_id(cache, IntRef(1), TRUE)

\* C8: in every TaskService method, when the adapter call raises, that very
\* error reaches the caller, no value is returned, and both cache mappings
\* are as they were before the call; the service raises nothing of its own.
C8_AdapterErrorsPropagate ==
    /\ [](/\ raised = api_error
          /\ api_error # None => result = None)
    /\ [][(api_error' # None /\ api_call' # None /\ pc = "ready") =>
             cache' = cache]_vars

\* C8 witness: update_task on a populated cache got NotFoundError from the
\* adapter and the caller received NotFoundError.
C8_Witness ==
    /\ pc = "ready"
    /\ cmd.name = "update_task"
    /\ api_error = Some("NotFoundError")
    /\ raised = Some("NotFoundError")
    /\ cache.active_tasks # << >>

\* ----------------------------------------------------------------- retry

NotRetried == {400, 401, 403, 404}

ErrorFor(status) ==
    CASE status = 400 -> "ValidationError"
      [] status \in {401, 403} -> "AuthenticationError"
      [] status = 404 -> "NotFoundError"

Transient(resp) ==
    resp.kind = "http" /\ (resp.status = 429 \/ resp.status >= 500)

\* C9: a 400, 401, 403 or 404 response is always the last attempt, on the
\* first attempt as well as after retried 429/5xx responses, and the call
\* then ends with ValidationError, AuthenticationError or NotFoundError.
C9_ClientErrorsNotRetried ==
    \A k \in 1..Len(r_seen) :
        (r_seen[k].kind = "http" /\ r_seen[k].status \in NotRetried) =>
            /\ k = Len(r_seen)
            /\ r_pc = "raised"
            /\ r_outcome = Some(ErrorFor(r_seen[k].status))

\* C9 witness: a 429 was retried and the next attempt answered 404.
C9_Witness ==
    /\ Len(r_seen) = 2
    /\ r_seen[1].status = 429
    /\ r_seen[2].status = 404
    /\ r_outcome = Some("NotFoundError")

\* C10: with max_retries = N >= 0, execute_with_retry makes at most N+1
\* attempts and ends; N+1 answers that are all 429 or 5xx end in
\* RateLimitError when the last one is 429 and in APIError when it is 5xx;
\* a successful attempt is the last one and its result is returned.
C10_BoundedRetry ==
    /\ [](r_max >= 0 =>
            /\ Len(r_seen) <= r_max + 1
            /\ Len(r_seen) = r_max + 1 => r_pc # "loop"
            /\ (/\ Len(r_seen) = r_max + 1
                /\ \A k \in 1..Len(r_seen) : Transient(r_seen[k])) =>
                  r_outcome = IF r_seen[Len(r_seen)].status = 429
                              THEN Some("RateLimitError")
                              ELSE Some("APIError")
            /\ \A k \in 1..Len(r_seen) :
                  r_seen[k].kind = "ok" =>
                      /\ k = Len(r_seen)
                      /\ r_pc = "returned"
                      /\ r_outcome = Some("result"))
    /\ <>(r_pc # "loop")

\* C10 witness: max_retries = 2 and three 429/5xx answers ending on a 429.
C10_Witness ==
    /\ r_max = 2
    /\ Len(r_seen) = 3
    /\ r_seen[1].status = 503
    /\ r_seen[2].status = 429
    /\ r_seen[3].status = 429
    /\ r_outcome = Some("RateLimitError")

\* Every execute() call returns or raises and time.sleep returns, so the
\* loop keeps taking steps while it can.
SpecRetryLive == SpecRetry /\ WF_vars(NextRetry)

\* --------------------------------------------------------------- adapter

AdapterOps == {"list_task_lists", "list_tasks", "get_task", "create_task",
               "update_task", "delete_task", "complete_task"}

\* An operation has ended after at least one answer of the remote.
Answered ==
    a_op \in AdapterOps /\ a_outcome.kind # "waiting" /\ a_seen # << >>
LastReply == a_seen[Len(a_seen)]

TransientReply(r) ==
    r.kind = "http" /\ (r.status = 429 \/ r.status >= 500)

\* C11: an adapter operation does not end on the first 429 or 5xx it
\* receives but issues the request again, and when that answer is a success
\* an operation of one request returns it.
C11_TransientRetried ==
    (Answered /\ TransientReply(a_seen[1])) =>
        /\ Len(a_seen) >= 2
        /\ (/\ a_seen[2].kind = "ok"
            /\ a_op \in {"list_task_lists", "list_tasks", "get_task",
                         "delete_task"})
               => a_outcome.kind = "return"

RECURSIVE PagesConcat(_)
PagesConcat(pages) ==
    IF pages = << >> THEN << >>
    ELSE pages[1].items \o PagesConcat(Tail(pages))

\* C12: list_tasks returns only after a page without nextPageToken, having
\* asked once per page, and returns the pages' items in page order.
C12_ListTasksFollowsPages ==
    (a_op = "list_tasks" /\ a_outcome.kind = "return") =>
        /\ ~LastReply.next
        /\ Len(a_sent) = Len(a_seen)
        /\ a_outcome.value = PagesConcat(a_seen)

\* C13: an operation on tasks that receives a remote 404 raises
\* NotFoundError.
C13_NotFoundSurfaces ==
    (/\ Answered
     /\ a_op # "list_task_lists"
     /\ LastReply.kind = "http"
     /\ LastReply.status = 404)
        => a_outcome = Raise("NotFoundError")

Taxonomy == ErrorKinds \cup {"RateLimitError", "NetworkError"}

\* C14: whatever an adapter operation raises is one of the six kinds, chosen
\* by the failed answer: 400 ValidationError, 401/403 AuthenticationError,
\* 429 (retries used up) RateLimitError, no connection NetworkError.
C14_ErrorsInTaxonomy ==
    (Answered /\ a_outcome.kind = "raise") =>
        /\ a_outcome.error \in Taxonomy
        /\ (LastReply.kind = "http" /\ LastReply.status = 400)
              => a_outcome.error = "ValidationError"
        /\ (LastReply.kind = "http" /\ LastReply.status \in {401, 403})
              => a_outcome.error = "AuthenticationError"
        /\ (LastReply.kind = "http" /\ LastReply.status = 429)
              => a_outcome.error = "RateLimitError"
        /\ LastReply.kind = "exception"
              => a_outcome.error = "NetworkError"

\* C15: an operation called on an adapter without valid credentials (no
\* _service was built) raises AuthenticationError and sends no request.
C15_UnauthenticatedRaises ==
    (a_op \in AdapterOps /\ a_flow) =>
        /\ a_outcome = Raise("AuthenticationError")
        /\ a_sent = << >>

\* ------------------------------------------------------------------ Task

\* completion timestamp present iff status is COMPLETED
TaskInvariant(t) == (t.completed # None) <=> (t.status = "completed")

\* C16: a Task built with "timestamp present iff COMPLETED" satisfies it
\* after every mark_complete and mark_incomplete, and two toggles in a row
\* (mark_complete on a NEEDS_ACTION task then mark_incomplete, or
\* mark_incomplete on a COMPLETED task then mark_complete) change the status
\* and bring back the status they started from.
C16_TaskInvariantPreserved ==
    TaskInvariant(m_orig) =>
        /\ TaskInvariant(m_task)
        /\ \A i \in 1..(Len(m_hist) - 1) :
              (\/ /\ m_hist[i].op = "mark_complete"
                  /\ m_hist[i].before = "needsAction"
                  /\ m_hist[i + 1].op = "mark_incomplete"
               \/ /\ m_hist[i].op = "mark_incomplete"
                  /\ m_hist[i].before = "completed"
                  /\ m_hist[i + 1].op = "mark_complete")
                 => /\ m_hist[i].after # m_hist[i].before
                    /\ m_hist[i + 1].after = m_hist[i].before

\* A completed task was toggled back and forth, and an active one too.
C16_Witness ==
    /\ TaskInvariant(m_orig)
    /\ Len(m_hist) >= 2
    /\ m_hist[1].op = "mark_incomplete"
    /\ m_hist[1].before = "completed"
    /\ m_hist[2].op = "mark_complete"
    /\ m_task.status = "completed"
    /\ m_task.completed # m_orig.completed

\* ------------------------------------------------------------------- TUI

\* The positions of the task with this id.
At(tasks, task_id) == { k \in 1..Len(tasks) : tasks[k].id = task_id }

\* The toggle handler runs with a selected task that is in the list.
ToggleOfSelected ==
    /\ u_event' = "action_toggle_completion"
    /\ u_selected # None
    /\ At(u_tasks, u_selected[1]) # {}

\* C17: a toggle request flips the status of the selected task and of no
\* other in the list in memory, and starts the update of that task: its
\* worker, carrying the task's id and pre-toggle status, is queued and has
\* not run when the handler returns.
C17_ToggleIsOptimistic ==
    [][ToggleOfSelected =>
          /\ Len(u_tasks') = Len(u_tasks)
          /\ \A k \in 1..Len(u_tasks) :
                IF u_tasks[k].id = u_selected[1]
                THEN /\ u_tasks'[k].status = Flip(u_tasks[k].status)
                     /\ u_tasks'[k].id = u_tasks[k].id
                     /\ u_tasks'[k].title = u_tasks[k].title
                ELSE u_tasks'[k] = u_tasks[k]
          /\ \E k \in At(u_tasks, u_selected[1]) :
                u_workers' = Append(u_workers,
                    PersistWorker(u_selected[1], u_tasks[k].status))
          /\ u_active' = None
          /\ u_done' = u_done]_vars

\* The second of two tasks was toggled to COMPLETED and its update waits.
C17_Witness ==
    /\ u_event = "action_toggle_completion"
    /\ Len(u_tasks) = 2
    /\ u_tasks[1].status = "needsAction"
    /\ u_tasks[2].status = "completed"
    /\ u_workers # << >>
    /\ u_workers[Len(u_workers)]
          = PersistWorker(u_tasks[2].id, "needsAction")

\* A _persist_toggle worker ends and its service call has raised.
PersistFails ==
    /\ u_active # None
    /\ u_active[1].kind = "_persist_toggle"
    /\ u_active' = None
    /\ u_done'.failed

\* C18: when the update started by a toggle fails, the handling leaves the
\* task, if it is still in the list, with its pre-toggle status, and the app
\* running.
C18_FailureReverts ==
    [][PersistFails =>
          /\ \A k \in At(u_tasks', u_active[1].task_id) :
                u_tasks'[k].status = u_active[1].old_status
          /\ At(u_tasks', u_active[1].task_id)
                = At(u_tasks, u_active[1].task_id)
          /\ u_alive']_vars

\* A failed update has put a toggled task back.
C18_Witness ==
    /\ u_done.worker # None
    /\ u_done.worker[1].kind = "_persist_toggle"
    /\ u_done.failed
    /\ u_alive
    /\ u_event = "worker"
    /\ \E k \in 1..Len(u_tasks) :
          /\ u_tasks[k].id = u_done.worker[1].task_id
          /\ u_tasks[k].status = "completed"
          /\ u_done.worker[1].old_status = "completed"

\* C19: over the TaskService, when the remote accepts the update, the toggle
\* makes one update call on the adapter, for that task id with the new
\* status, and nothing is reverted.
C19_ToggleReachesAdapter ==
    (/\ u_service = "TaskService"
     /\ u_done.worker # None
     /\ u_done.worker[1].kind = "_persist_toggle"
     /\ u_done.remote = "ok")
        => /\ u_done.calls
                = << AdapterCall("update_task", u_done.worker[1].task_id,
                                 Flip(u_done.worker[1].old_status)) >>
           /\ ~u_done.failed

WorkerKinds ==
    { LoadWorker } \cup
    { PersistWorker(id, st) : id \in Ids, st \in TaskStatus }

Started(w) ==
    (\E k \in 1..Len(u_workers) : u_workers[k] = w) \/ u_active = Some(w)

SpecTuiLive ==
    /\ SpecTui
    /\ WF_vars(worker_start)
    /\ WF_vars(\E oc_lists \in TaskListsOutcomes,
                  oc_tasks \in AnyListOutcomes :
                     load_data_end(oc_lists, oc_tasks))
    /\ WF_vars(\E remote \in Remotes : persist_toggle_end(remote))

\* ------------------------------------------------ TUI: loop and selection

\* A worker is inside its call on the service.
CallInFlight == u_alive /\ u_active # None

\* C21: while the call of load_data or of _persist_toggle is in flight, a key
\* can be handled: the handler of j, k, enter or r can run before the call's
\* result arrives.
C21_KeysHandledDuringCall ==
    CallInFlight =>
        ENABLED (\/ action_cursor_down
                 \/ action_cursor_up
                 \/ action_toggle_completion
                 \/ action_refresh)

\* C22: a toggle of the selected task, at whatever position of the list it
\* is, leaves selected_task_id on that task and the highlight on its row.
C22_ToggleKeepsSelection ==
    [][ToggleOfSelected =>
          /\ u_selected' = u_selected
          /\ u_index' # None
          /\ u_index'[1] + 1 \in At(u_tasks', u_selected[1])]_vars

\* ----------------------------------------------------- TUI: navigation

\* The handler of j or of k runs on a non-empty list.
Navigates ==
    /\ u_event' \in {"action_cursor_down", "action_cursor_up"}
    /\ Len(u_tasks) > 0

\* list_view.index or 0
CurrentIndex == IF u_index = None THEN 0 ELSE u_index[1]

Unresolved(task_id) ==
    \E k \in 1..Len(u_workers) :
        /\ u_workers[k].kind = "_persist_toggle"
        /\ u_workers[k].task_id = task_id

C28_TimestampIffCompleted ==
    \A k \in 1..Len(u_tasks) :
        (u_tasks[k].completed # None) <=> (u_tasks[k].status = "completed")

\* No worker is queued and none is on the loop.
Quiescent == u_alive /\ u_workers = << >> /\ u_active = None

\* C29: once every update and every refresh that was started has ended, each
\* task of the list in memory has the status the remote holds for it.
C29_SettledMatchesRemote ==
    Quiescent =>
        \A k \in 1..Len(u_tasks) : u_tasks[k].status = u_remote[u_tasks[k].id]

\* C30: between handlers, the marker on each row of the list view is the one
\* of the status of the task at that position of the list in memory.
C30_RowsShowStatus ==
    /\ Len(u_rows) = Len(u_tasks)
    /\ \A k \in 1..Len(u_tasks) : u_rows[k] = Marker(u_tasks[k].status)

\* ------------------------------------------------- CLI: cache file, launch

\* An invocation has run its command and its result callback and has exited.
InvocationCompleted == pc = "down" /\ cmd.name \notin {"none", "cli"}

\* C23: whatever the cache holds when a completed invocation exits, handled
\* error or not, the load of the next invocation gives the same active and
\* the same completed mapping.
C23_SaveThenLoadIsIdentity ==
    InvocationCompleted =>
        /\ load(disk).active_tasks = cache.active_tasks
        /\ load(disk).completed_tasks = cache.completed_tasks

\* An invocation that handled a domain error has exited with both mappings
\* filled, two entries in the active one.
C23_Witness ==
    /\ InvocationCompleted
    /\ api_error # None
    /\ DOMAIN cache.active_tasks = 1..2
    /\ cache.completed_tasks # << >>

\* ---------------------------------------------------- credentials file

\* C24: whenever token.json exists, its permission bits are the owner's read
\* and write and nothing else (0600).
C24_TokenFileOwnerOnly ==
    a_mode # None => a_mode[1] = OwnerOnly

\* The invocation has exited.
Exited == pc = "down" /\ c_exit # None

\* C25: an invocation with no subcommand, like `gui`, has run the TUI once
\* and exits with 0; one with an unknown option has not run the TUI and exits
\* with another status.
C25_NoSubcommandLaunchesTui ==
    Exited =>
        /\ cmd.name = "gui" => (c_launched = 1 /\ c_exit = Some(0))
        /\ (cmd.name = "cli" /\ cmd.argv = << >>)
              => (c_launched = 1 /\ c_exit = Some(0))
        /\ (cmd.name = "cli" /\ cmd.argv # << >>)
              => (c_launched = 0 /\ c_exit # Some(0))

=============================================================================
